---------------------------- MODULE Spec2Model ----------------------------
(***************************************************************************)
(* Model of the gorbagana_slots_vrf program                                *)
(* (src/programs/gorbagana_slots/src/lib.rs): the commit-reveal spin       *)
(* state machine, the pool solvency guard and the progressive jackpots.    *)
(*                                                                         *)
(* Every instruction handler is one action.  A Solana transaction is       *)
(* atomic: an instruction that returns Err leaves every account as it was. *)
(* A handler is therefore modelled as (1) an operator that walks the       *)
(* handler's require! checks in source order and yields the first error    *)
(* (or "Ok"), and (2) an action that applies the handler's writes when the *)
(* result is "Ok".  A rejected instruction changes nothing, so it is no    *)
(* step of the model: what it returns is the value of the handler's error  *)
(* operator in that state.  `last` keeps the name and the emitted event of *)
(* the last instruction that succeeded.                                    *)
(*                                                                         *)
(* Amounts are counted in units of LAMPORTS_PER_UNIT lamports, because the *)
(* model checker's integers are 32 bits wide; the amounts set by           *)
(* initialize are the source's literals divided by that unit.              *)
(***************************************************************************)
EXTENDS Integers, Sequences, FiniteSets, TLC

\* ------------------------------------------------------------------------
\* Bounds of the model (not program constants)
\* ------------------------------------------------------------------------

\* Lamports per unit of account of the model.
LAMPORTS_PER_UNIT == 100000

\* The clock's slot runs from FirstSlot to MaxSlot.
FirstSlot == 2

MaxSlot == 4

\* At most MaxSpins spins are requested in one behaviour.
MaxSpins == 3

\* The oracle commits at most MaxCommits randomness accounts.
MaxCommits == 1

\* Balance of every player's wallet, and of the authority's, at the start.
PlayerFunds == 2000

AuthorityFunds == 12200

\* Rent-exempt balance the treasury PDA is created with.
TreasuryRent == 1

\* The warm start: SettledBefore spins of WarmBet each were settled before.
SettledBefore == 100

WarmBet == 200

\* The lamport-denominated start: one pending spin of 1..MaxTinyBet lamports.
MaxTinyBet == 30

Players == {"p1", "p2", "p3"}

Authority == "authority"

Treasury == "treasury"

Signers == Players \cup {Authority}

\* Randomness accounts owned by the Switchboard program.
Handles == {"h1", "h2"}

\* An account that is not owned by the Switchboard program.
ForeignAccount == "foreign"

RandomnessAccounts == Handles \cup {ForeignAccount}

\* Pubkey::default()
DefaultPubkey == "default"

\* Inputs of the instructions.  The bets that are accepted are multiples of
\* 200 units, so that the jackpot contributions (50 and 100 bps) are whole
\* units and amounts in units behave as amounts in lamports do.
BetAmounts == {0, 200, 1000, 10001}

DepositAmounts == {0, 12200}

ClaimAmounts == {0, 200}

\* The random bytes an oracle may reveal (the first 8 of the 32, which are all
\* settle_spin reads).
RandomValues ==
    { <<0, 0, 0, 0, 0, 0, 0, 0>>,      \* symbols 1 2 9, jackpot draw 516
      <<1, 0, 0, 0, 0, 0, 0, 0>>,      \* symbols 2 9 9, jackpot draw 813
      <<3, 0, 0, 0, 0, 0, 0, 0>>,      \* symbols 11 8 11, jackpot draw 111
      <<76, 0, 0, 0, 0, 0, 0, 0>> }    \* symbols 9 9 9, jackpot draw 360

\* ------------------------------------------------------------------------
\* 64-bit words as 8 little-endian bytes (u64::from_le_bytes)
\* ------------------------------------------------------------------------

Min(a, b) == IF a <= b THEN a ELSE b

\* u64::saturating_sub
saturating_sub(a, b) == IF a >= b THEN a - b ELSE 0

\* Column k (1..8) of the schoolbook product of two 8-byte words.
MulColumn(x, y, k) ==
    LET RECURSIVE col(_)
        col(i) == IF i > k THEN 0 ELSE x[i] * y[k + 1 - i] + col(i + 1)
    IN col(1)

\* u64::wrapping_mul(x, y).wrapping_add(c): the low 8 bytes of x * y + c.
RECURSIVE MulAddBytes(_, _, _, _)
MulAddBytes(x, y, k, carry) ==
    IF k > 8 THEN <<>>
    ELSE LET t == MulColumn(x, y, k) + carry
         IN <<t % 256>> \o MulAddBytes(x, y, k + 1, t \div 256)

\* The value of bytes i..n of a little-endian word, modulo m (i = 1 gives the
\* value of the low n bytes: n = 8 is the u64, n = 4 is the word cast `as u32`).
RECURSIVE BytesMod(_, _, _, _)
BytesMod(x, i, n, m) ==
    IF i > n THEN 0 ELSE (BytesMod(x, i + 1, n, m) * 256 + x[i]) % m

\* ------------------------------------------------------------------------
\* CONFIG / CONSTANTS
\* ------------------------------------------------------------------------

SYMBOL_COUNT == 12

TOTAL_WEIGHT == 78

SYMBOL_WEIGHTS == <<1, 2, 3, 4, 5, 6, 7, 8, 9, 10, 11, 12>>

\* Multipliers of symbols 0..11 (the sequence is indexed from 1).
SYMBOL_PAYOUTS_3OAK == <<553, 387, 276, 221, 166, 124, 97, 69, 55, 41, 28, 14>>

\* const A of next_random_u64: 6364136223846793005 = 0x5851F42D4C957F2D.
LCG_A == <<45, 127, 149, 76, 45, 244, 81, 88>>

\* const C of next_random_u64.
LCG_C == 1

\* ------------------------------------------------------------------------
\* INTERNAL HELPERS
\* ------------------------------------------------------------------------

\* fn next_random_u64: seed.wrapping_mul(A).wrapping_add(C), the new seed,
\* which is also the value returned.
lcg_step(seed) == MulAddBytes(seed, LCG_A, 1, LCG_C)

\* lcg_step tabulated once for the seeds a settlement goes through (it draws
\* four times from the revealed value).
LcgMemo ==
    LET after(S) == S \cup {lcg_step(x) : x \in S}
    IN [x \in after(after(after(RandomValues))) |-> lcg_step(x)]

next_random_u64(seed) ==
    IF seed \in DOMAIN LcgMemo THEN LcgMemo[seed] ELSE lcg_step(seed)

\* weighted_scan that also stops at a symbol when r equals its weight.
RECURSIVE weighted_scan_inclusive(_, _)
weighted_scan_inclusive(r, idx) ==
    IF idx >= SYMBOL_COUNT THEN SYMBOL_COUNT - 1
    ELSE IF r <= SYMBOL_WEIGHTS[idx + 1] THEN idx
    ELSE weighted_scan_inclusive(r - SYMBOL_WEIGHTS[idx + 1], idx + 1)

\* fn generate_weighted_symbol, given r = random_u64 % TOTAL_WEIGHT at index idx.
RECURSIVE weighted_scan(_, _)
weighted_scan(r, idx) ==
    IF idx >= SYMBOL_COUNT THEN SYMBOL_COUNT - 1
    ELSE IF r < SYMBOL_WEIGHTS[idx + 1] THEN idx
    ELSE weighted_scan(r - SYMBOL_WEIGHTS[idx + 1], idx + 1)

generate_weighted_symbol(random_u64) ==
    weighted_scan(BytesMod(random_u64, 1, 8, TOTAL_WEIGHT), 0)

\* fn calculate_payout_3oak (bet * mult stays far below u64::MAX for every bet
\* request_spin accepts, so saturating_mul is the product).
calculate_payout_3oak(symbols, bet_amount) ==
    IF \E i \in 1..3 : symbols[i] >= SYMBOL_COUNT THEN 0
    ELSE IF symbols[1] = symbols[2] /\ symbols[2] = symbols[3]
         THEN bet_amount * SYMBOL_PAYOUTS_3OAK[symbols[1] + 1]
         ELSE 0

\* apply_jackpot_contributions that rounds each contribution up.
apply_jackpot_contributions_rounding_up(jackpots, bet_amount) ==
    LET mini_contrib  == (bet_amount * jackpots.mini.contrib_bps + 9999) \div 10000
        major_contrib == (bet_amount * jackpots.major.contrib_bps + 9999) \div 10000
        grand_contrib == (bet_amount * jackpots.grand.contrib_bps + 9999) \div 10000
    IN [jackpots EXCEPT !.mini.amount  = @ + mini_contrib,
                        !.major.amount = @ + major_contrib,
                        !.grand.amount = @ + grand_contrib]

\* fn apply_jackpot_contributions: the jackpots after a bet's contributions
\* (the u128 products and the checked_add sums stay far below their widths).
apply_jackpot_contributions(jackpots, bet_amount) ==
    LET mini_contrib  == (bet_amount * jackpots.mini.contrib_bps) \div 10000
        major_contrib == (bet_amount * jackpots.major.contrib_bps) \div 10000
        grand_contrib == (bet_amount * jackpots.grand.contrib_bps) \div 10000
    IN [jackpots EXCEPT !.mini.amount  = @ + mini_contrib,
                        !.major.amount = @ + major_contrib,
                        !.grand.amount = @ + grand_contrib]

\* fn total_jackpot_amounts
total_jackpot_amounts(jackpots) ==
    jackpots.mini.amount + jackpots.major.amount + jackpots.grand.amount

\* award_jackpot without the full-amount rule: pays what fits under the ceiling.
award_jackpot_partial(pool, max_jackpot_payout) ==
    IF pool.amount = 0 THEN [paid |-> 0, pool |-> pool]
    ELSE [paid |-> Min(pool.amount, max_jackpot_payout),
          pool |-> [pool EXCEPT !.amount = pool.seed]]

\* award_jackpot that empties the pool instead of resetting it to its seed.
award_jackpot_emptying(pool, max_jackpot_payout) ==
    IF pool.amount = 0 THEN [paid |-> 0, pool |-> pool]
    ELSE IF pool.amount > max_jackpot_payout THEN [paid |-> 0, pool |-> pool]
    ELSE [paid |-> pool.amount, pool |-> [pool EXCEPT !.amount = 0]]

\* fn award_jackpot: the amount paid and the pool afterwards.
award_jackpot(pool, max_jackpot_payout) ==
    IF pool.amount = 0 THEN [paid |-> 0, pool |-> pool]
    ELSE IF pool.amount > max_jackpot_payout THEN [paid |-> 0, pool |-> pool]
    ELSE [paid |-> pool.amount, pool |-> [pool EXCEPT !.amount = pool.seed]]

\* maybe_hit_jackpot that walks the tiers in the order grand, major, mini.
maybe_hit_jackpot_grand_first(jackpots, seed, max_jackpot_payout) ==
    LET hit_total == jackpots.hit_weight_total
        drawn     == next_random_u64(seed)
        r         == BytesMod(drawn, 1, 4, hit_total)
        acc1      == jackpots.grand.hit_weight
        acc2      == acc1 + jackpots.major.hit_weight
        acc3      == acc2 + jackpots.mini.hit_weight
        mini      == award_jackpot(jackpots.mini, max_jackpot_payout)
        major     == award_jackpot(jackpots.major, max_jackpot_payout)
        grand     == award_jackpot(jackpots.grand, max_jackpot_payout)
    IN IF hit_total = 0 \/ max_jackpot_payout = 0
       THEN [paid |-> 0, jackpots |-> jackpots, seed |-> seed]
       ELSE IF r < acc1
       THEN [paid |-> grand.paid, seed |-> drawn,
             jackpots |-> [jackpots EXCEPT !.grand = grand.pool]]
       ELSE IF r < acc2
       THEN [paid |-> major.paid, seed |-> drawn,
             jackpots |-> [jackpots EXCEPT !.major = major.pool]]
       ELSE IF r < acc3
       THEN [paid |-> mini.paid, seed |-> drawn,
             jackpots |-> [jackpots EXCEPT !.mini = mini.pool]]
       ELSE [paid |-> 0, jackpots |-> jackpots, seed |-> drawn]

\* fn maybe_hit_jackpot: the amount paid, the jackpots and the seed afterwards.
maybe_hit_jackpot(jackpots, seed, max_jackpot_payout) ==
    LET hit_total == jackpots.hit_weight_total
        drawn     == next_random_u64(seed)
        r         == BytesMod(drawn, 1, 4, hit_total)
        acc1      == jackpots.mini.hit_weight
        acc2      == acc1 + jackpots.major.hit_weight
        acc3      == acc2 + jackpots.grand.hit_weight
        mini      == award_jackpot(jackpots.mini, max_jackpot_payout)
        major     == award_jackpot(jackpots.major, max_jackpot_payout)
        grand     == award_jackpot(jackpots.grand, max_jackpot_payout)
    IN IF hit_total = 0 \/ max_jackpot_payout = 0
       THEN [paid |-> 0, jackpots |-> jackpots, seed |-> seed]
       ELSE IF r < acc1
       THEN [paid |-> mini.paid, seed |-> drawn,
             jackpots |-> [jackpots EXCEPT !.mini = mini.pool]]
       ELSE IF r < acc2
       THEN [paid |-> major.paid, seed |-> drawn,
             jackpots |-> [jackpots EXCEPT !.major = major.pool]]
       ELSE IF r < acc3
       THEN [paid |-> grand.paid, seed |-> drawn,
             jackpots |-> [jackpots EXCEPT !.grand = grand.pool]]
       ELSE [paid |-> 0, jackpots |-> jackpots, seed |-> drawn]

\* ------------------------------------------------------------------------
\* ACCOUNT STATE
\* ------------------------------------------------------------------------

VARIABLES
    slots_state,    \* the SlotsState account
    player_state,   \* the PlayerState PDAs that exist: player -> PlayerState
    lamports,       \* balance of every wallet and of the treasury PDA
    slot,           \* Clock::get()?.slot
    randomness,     \* the Switchboard randomness accounts: handle -> data
    last,           \* name and event of the last instruction that succeeded
    net_flow,       \* history: deposits + accepted bets - payouts - withdrawals
    deposited,      \* history: the sum of the add_to_pool deposits
    spin_requests,  \* history: the number of request_spin calls that succeeded
    accepted_bets   \* history: the sum of the bets of those calls

vars == <<slots_state, player_state, lamports, slot, randomness, last,
          net_flow, deposited, spin_requests, accepted_bets>>

accounts == <<slots_state, player_state, lamports>>

\* pub fn initialize: the SlotsState it writes, with the amounts in units of
\* `unit` lamports.  current_rtp_bps, a u32, is kept as its two 16-bit halves.
initialize_in(unit, authority) ==
    LET mini_seed  == 10000000 \div unit
        major_seed == 100000000 \div unit
        grand_seed == 1000000000 \div unit
    IN [authority           |-> authority,
        treasury            |-> Treasury,
        initialized         |-> TRUE,
        paused              |-> FALSE,
        total_spins         |-> 0,
        total_wagered       |-> 0,
        total_payout        |-> 0,
        house_profit        |-> 0,
        current_rtp_bps     |-> [hi |-> 0, lo |-> 0],
        house_edge_bps      |-> 500,
        total_pool          |-> 0,
        max_payout_per_spin |-> 1000000000 \div unit,
        min_pool_threshold  |-> 100000000 \div unit,
        jackpots            |->
            [mini  |-> [amount |-> mini_seed, seed |-> mini_seed,
                        contrib_bps |-> 50, hit_weight |-> 500],
             major |-> [amount |-> major_seed, seed |-> major_seed,
                        contrib_bps |-> 100, hit_weight |-> 300],
             grand |-> [amount |-> grand_seed, seed |-> grand_seed,
                        contrib_bps |-> 50, hit_weight |-> 200],
             hit_weight_total |-> 500 + 300 + 200]]

\* pub fn initialize, in the units of account of the model.
initialize(authority) == initialize_in(LAMPORTS_PER_UNIT, authority)

\* pub fn init_player: the PlayerState it writes (the bump is left out).  The
\* `init` constraint creates the PDA, so the instruction runs once per player;
\* every player's PDA exists from the start.
init_player(user) ==
    [owner |-> user, randomness_account |-> DefaultPubkey,
     pending_bet_amount |-> 0, has_pending_spin |-> FALSE]

\* The event fields of an instruction that emits none.
NoEvent ==
    [user |-> DefaultPubkey, randomness_account |-> DefaultPubkey,
     bet_amount |-> 0, symbols |-> <<>>, base_payout |-> 0,
     jackpot_payout |-> 0, total_payout |-> 0]

Done(op) == [op |-> op, event |-> NoEvent]

\* A randomness account nobody has committed yet.
FreshRandomness ==
    [seed_slot |-> 0, reveal_slot |-> 0, value |-> <<>>]

Init ==
    /\ slots_state = initialize(Authority)
    /\ player_state = [p \in Players |-> init_player(p)]
    /\ lamports = [a \in Signers \cup {Treasury} |->
                     IF a = Treasury THEN TreasuryRent
                     ELSE IF a = Authority THEN AuthorityFunds
                     ELSE PlayerFunds]
    /\ slot = FirstSlot
    /\ randomness = [h \in Handles |-> FreshRandomness]
    /\ last = Done("init_player")
    /\ net_flow = 0
    /\ deposited = 0
    /\ spin_requests = 0
    /\ accepted_bets = 0

\* ------------------------------------------------------------------------
\* External collaborators: the clock and the Switchboard randomness accounts
\* ------------------------------------------------------------------------

\* The owner check of request_spin and settle_spin (require_keys_eq! on
\* randomness_ai.owner): only the accounts in Handles are Switchboard's.
owned_by_switchboard(ai) == ai \in Handles

\* RandomnessAccountData::get_value(clock.slot): Ok only in the slot in which
\* the value was revealed.
value_resolved(ai) ==
    /\ randomness[ai].reveal_slot # 0
    /\ randomness[ai].reveal_slot = slot

\* Whether the oracle has revealed the value of a handle (at any slot).
revealed(ai) == randomness[ai].reveal_slot # 0

\* A slot passes.
AdvanceSlot ==
    /\ slot < MaxSlot
    /\ slot' = slot + 1
    /\ last' = Done("environment")
    /\ UNCHANGED <<accounts, randomness, net_flow, deposited,
                   spin_requests, accepted_bets>>

\* The oracle's commit for a handle: its seed slot is the current slot.
OracleCommit(h) ==
    /\ randomness[h].seed_slot = 0
    /\ Cardinality({g \in Handles : randomness[g].seed_slot # 0}) < MaxCommits
    /\ randomness' = [randomness EXCEPT ![h] =
                        [seed_slot |-> slot, reveal_slot |-> 0,
                         value |-> FreshRandomness.value]]
    /\ last' = Done("environment")
    /\ UNCHANGED <<accounts, slot, net_flow, deposited,
                   spin_requests, accepted_bets>>

\* The oracle's reveal of a committed handle's value, in the current slot; the
\* value derives from the seed slot's hash, so the reveal comes in a later slot.
OracleReveal(h, v) ==
    /\ randomness[h].seed_slot # 0
    /\ randomness[h].seed_slot < slot
    /\ randomness[h].reveal_slot = 0
    /\ randomness' = [randomness EXCEPT ![h].reveal_slot = slot,
                                        ![h].value = v]
    /\ last' = Done("environment")
    /\ UNCHANGED <<accounts, slot, net_flow, deposited,
                   spin_requests, accepted_bets>>

\* ------------------------------------------------------------------------
\* PROGRAM
\* ------------------------------------------------------------------------

\* system_program::transfer
transfer(balances, from, to, amount) ==
    [balances EXCEPT ![from] = @ - amount, ![to] = @ + amount]

\* Players with a pending spin.
Committed == {p \in Players : player_state[p].has_pending_spin}

\* Spins requested so far (bounds the behaviours).
spins_requested == slots_state.total_spins + Cardinality(Committed)

\* required_pool without the worst-case payout.
required_pool_threshold_only(s) == s.min_pool_threshold

\* request_spin: min_pool_threshold.saturating_add(max_payout_per_spin)
required_pool(s) == s.min_pool_threshold + s.max_payout_per_spin

\* seed_slot_fresh that accepts every seed slot up to the current slot.
seed_slot_fresh_or_older(seed_slot, current_slot) ==
    seed_slot <= current_slot

\* request_spin: the freshness check of the handle's seed slot.
seed_slot_fresh(seed_slot, current_slot) ==
    seed_slot = current_slot \/ seed_slot = saturating_sub(current_slot, 1)

\* request_spin_error without `require!(!player_state.has_pending_spin, ..)`.
request_spin_error_allowing_pending(p, randomness_account, ai, bet_amount) ==
    IF ~slots_state.initialized THEN "Uninitialized"
    ELSE IF slots_state.paused THEN "GamePaused"
    ELSE IF ~(bet_amount > 0) THEN "InvalidBetAmount"
    ELSE IF ~(bet_amount <= slots_state.max_payout_per_spin) THEN "BetTooHigh"
    ELSE IF randomness_account # ai THEN "RandomnessAccountMismatch"
    ELSE IF ~owned_by_switchboard(ai) THEN "RandomnessAccountMismatch"
    ELSE IF ~(lamports[p] >= bet_amount) THEN "InsufficientFunds"
    ELSE IF ~(slots_state.total_pool >= required_pool(slots_state))
         THEN "InsufficientPool"
    ELSE IF ~(lamports[Treasury] >= required_pool(slots_state))
         THEN "InsufficientPool"
    ELSE IF ~seed_slot_fresh(randomness[ai].seed_slot, slot)
         THEN "RandomnessNotResolved"
    ELSE "Ok"

\* request_spin_error without `require!(bet_amount > 0, ..)`.
request_spin_error_without_bet_check(p, randomness_account, ai, bet_amount) ==
    IF ~slots_state.initialized THEN "Uninitialized"
    ELSE IF slots_state.paused THEN "GamePaused"
    ELSE IF ~(bet_amount <= slots_state.max_payout_per_spin) THEN "BetTooHigh"
    ELSE IF player_state[p].has_pending_spin THEN "PendingSpinExists"
    ELSE IF randomness_account # ai THEN "RandomnessAccountMismatch"
    ELSE IF ~owned_by_switchboard(ai) THEN "RandomnessAccountMismatch"
    ELSE IF ~(lamports[p] >= bet_amount) THEN "InsufficientFunds"
    ELSE IF ~(slots_state.total_pool >= required_pool(slots_state))
         THEN "InsufficientPool"
    ELSE IF ~(lamports[Treasury] >= required_pool(slots_state))
         THEN "InsufficientPool"
    ELSE IF ~seed_slot_fresh(randomness[ai].seed_slot, slot)
         THEN "RandomnessNotResolved"
    ELSE "Ok"

\* request_spin_error without `require!(user.lamports() >= bet_amount, ..)`.
request_spin_error_without_funds_check(p, randomness_account, ai, bet_amount) ==
    IF ~slots_state.initialized THEN "Uninitialized"
    ELSE IF slots_state.paused THEN "GamePaused"
    ELSE IF ~(bet_amount > 0) THEN "InvalidBetAmount"
    ELSE IF ~(bet_amount <= slots_state.max_payout_per_spin) THEN "BetTooHigh"
    ELSE IF player_state[p].has_pending_spin THEN "PendingSpinExists"
    ELSE IF randomness_account # ai THEN "RandomnessAccountMismatch"
    ELSE IF ~owned_by_switchboard(ai) THEN "RandomnessAccountMismatch"
    ELSE IF ~(slots_state.total_pool >= required_pool(slots_state))
         THEN "InsufficientPool"
    ELSE IF ~(lamports[Treasury] >= required_pool(slots_state))
         THEN "InsufficientPool"
    ELSE IF ~seed_slot_fresh(randomness[ai].seed_slot, slot)
         THEN "RandomnessNotResolved"
    ELSE "Ok"

\* request_spin: its require! checks in source order; the first that fails.
request_spin_error(p, randomness_account, ai, bet_amount) ==
    IF ~slots_state.initialized THEN "Uninitialized"
    ELSE IF slots_state.paused THEN "GamePaused"
    ELSE IF ~(bet_amount > 0) THEN "InvalidBetAmount"
    ELSE IF ~(bet_amount <= slots_state.max_payout_per_spin) THEN "BetTooHigh"
    ELSE IF player_state[p].has_pending_spin THEN "PendingSpinExists"
    ELSE IF randomness_account # ai THEN "RandomnessAccountMismatch"
    ELSE IF ~owned_by_switchboard(ai) THEN "RandomnessAccountMismatch"
    ELSE IF ~(lamports[p] >= bet_amount) THEN "InsufficientFunds"
    ELSE IF ~(slots_state.total_pool >= required_pool(slots_state))
         THEN "InsufficientPool"
    ELSE IF ~(lamports[Treasury] >= required_pool(slots_state))
         THEN "InsufficientPool"
    ELSE IF ~seed_slot_fresh(randomness[ai].seed_slot, slot)
         THEN "RandomnessNotResolved"
    ELSE "Ok"

\* request_spin_accounting that forgets to add the bet to total_wagered.
request_spin_accounting_without_wagered(s, bet_amount) ==
    [s EXCEPT !.total_pool = @ + bet_amount,
              !.jackpots = apply_jackpot_contributions(@, bet_amount)]

\* request_spin_accounting that forgets to add the bet to total_pool.
request_spin_accounting_without_pool(s, bet_amount) ==
    [s EXCEPT !.total_wagered = @ + bet_amount,
              !.jackpots = apply_jackpot_contributions(@, bet_amount)]

\* request_spin: "Update accounting" and the jackpot contributions.
request_spin_accounting(s, bet_amount) ==
    [s EXCEPT !.total_wagered = @ + bet_amount,
              !.total_pool = @ + bet_amount,
              !.jackpots = apply_jackpot_contributions(@, bet_amount)]

\* request_spin: "Store pending spin in player_state".
store_pending_spin(ps, randomness_account, bet_amount) ==
    [ps EXCEPT !.randomness_account = randomness_account,
               !.pending_bet_amount = bet_amount,
               !.has_pending_spin = TRUE]

\* pub fn request_spin
RequestSpin(p, randomness_account, ai, bet_amount) ==
    /\ spins_requested < MaxSpins
    /\ request_spin_error(p, randomness_account, ai, bet_amount) = "Ok"
    /\ lamports' = transfer(lamports, p, Treasury, bet_amount)
    /\ slots_state' = request_spin_accounting(slots_state, bet_amount)
    /\ player_state' =
         [player_state EXCEPT ![p] =
            store_pending_spin(@, randomness_account, bet_amount)]
    /\ last' = [op |-> "request_spin",
                event |-> [NoEvent EXCEPT
                   !.user = p,
                   !.bet_amount = bet_amount,
                   !.randomness_account = randomness_account]]
    /\ net_flow' = net_flow + bet_amount
    /\ spin_requests' = spin_requests + 1
    /\ accepted_bets' = accepted_bets + bet_amount
    /\ UNCHANGED <<slot, randomness, deposited>>

\* max_total_affordable that does not hold back min_pool_threshold.
max_total_affordable_whole_pool(s) ==
    Min(s.total_pool, s.max_payout_per_spin)

\* settle_spin, "GLOBAL CAPS & POOL LIMITS": what one spin may pay in total.
max_total_affordable(s) ==
    LET available_pool == saturating_sub(s.total_pool, s.min_pool_threshold)
        cap_by_house   == s.max_payout_per_spin
    IN Min(available_pool, cap_by_house)

\* settle_spin, "SYMBOLS + BASE PAYOUT": the three symbols drawn from the
\* revealed seed, and the seed after the three draws.
draw_symbols(seed) ==
    LET r1 == next_random_u64(seed)
        r2 == next_random_u64(r1)
        r3 == next_random_u64(r2)
    IN [symbols |-> <<generate_weighted_symbol(r1),
                      generate_weighted_symbol(r2),
                      generate_weighted_symbol(r3)>>,
        seed |-> r3]

\* settle_spin, from the symbols to total_payout: the SpinOutcome and the
\* jackpots after jackpot resolution.  zero_path is the early exit taken when
\* max_total_affordable == 0.
spin_outcome(s, bet_amount, random_value) ==
    LET drawn            == draw_symbols(random_value)
        base_payout_full == calculate_payout_3oak(drawn.symbols, bet_amount)
        affordable       == max_total_affordable(s)
        base_payout      == Min(base_payout_full, affordable)
        remaining_for_jackpot == saturating_sub(affordable, base_payout)
        hit == IF remaining_for_jackpot > 0
               THEN maybe_hit_jackpot(s.jackpots, drawn.seed,
                                      remaining_for_jackpot)
               ELSE [paid |-> 0, jackpots |-> s.jackpots, seed |-> drawn.seed]
    IN IF affordable = 0
       THEN [symbols |-> drawn.symbols, base_payout |-> 0,
             jackpot_payout |-> 0, total_payout |-> 0,
             jackpots |-> s.jackpots, zero_path |-> TRUE]
       ELSE [symbols |-> drawn.symbols, base_payout |-> base_payout,
             jackpot_payout |-> hit.paid,
             total_payout |-> base_payout + hit.paid,
             jackpots |-> hit.jackpots, zero_path |-> FALSE]

\* (total_payout as u128).saturating_mul(10_000) / (total_wagered as u128),
\* exactly: the quotient is hi * 2^16 + lo with 0 <= lo < 2^16, computed in
\* 16-bit digits for counters below 2^31 and total_wagered below 2^31 / 10^4
\* (the u128 product cannot saturate for u64 counters).
rtp_quotient(total_payout, total_wagered) ==
    LET a   == total_payout \div total_wagered
        b   == total_payout % total_wagered
        c   == (b * 10000) \div total_wagered
        low == (a % 65536) * 10000 + c
    IN [hi |-> (a \div 65536) * 10000 + low \div 65536,
        lo |-> low % 65536]

\* `as u32` of the quotient: its low 32 bits, as two 16-bit halves.
as_u32(quotient) == [hi |-> quotient.hi % 65536, lo |-> quotient.lo]

\* update_rtp_stats that does not count the spin.
update_rtp_stats_without_spin(s) ==
    LET counted == [s EXCEPT !.house_profit =
                                saturating_sub(s.total_wagered, s.total_payout)]
    IN IF s.total_wagered > 0
       THEN [counted EXCEPT !.current_rtp_bps =
                as_u32(rtp_quotient(s.total_payout, s.total_wagered))]
       ELSE counted

\* settle_spin, "RTP STATS" of the paying path.
update_rtp_stats(s) ==
    LET counted == [s EXCEPT !.total_spins = @ + 1,
                             !.house_profit =
                                saturating_sub(s.total_wagered, s.total_payout)]
    IN IF s.total_wagered > 0
       THEN [counted EXCEPT !.current_rtp_bps =
                as_u32(rtp_quotient(s.total_payout, s.total_wagered))]
       ELSE counted

\* zero_payout_stats that does not count the spin.
zero_payout_stats_without_spin(s) ==
    LET counted == [s EXCEPT !.house_profit =
                                saturating_sub(s.total_wagered, s.total_payout)]
    IN IF s.total_wagered > 0
       THEN [counted EXCEPT !.current_rtp_bps =
                as_u32(rtp_quotient(s.total_payout, s.total_wagered))]
       ELSE counted

\* settle_spin, `if max_total_affordable == 0`: the statistics of the early
\* exit (its own copy of the "RTP STATS" statements).
zero_payout_stats(s) ==
    LET counted == [s EXCEPT !.total_spins = @ + 1,
                             !.house_profit =
                                saturating_sub(s.total_wagered, s.total_payout)]
    IN IF s.total_wagered > 0
       THEN [counted EXCEPT !.current_rtp_bps =
                as_u32(rtp_quotient(s.total_payout, s.total_wagered))]
       ELSE counted

\* settle_spin_accounting that does not take the payout out of total_pool.
settle_spin_accounting_keeping_pool(s, outcome) ==
    IF outcome.total_payout > 0
    THEN [s EXCEPT !.jackpots = outcome.jackpots,
                   !.total_payout = @ + outcome.total_payout]
    ELSE [s EXCEPT !.jackpots = outcome.jackpots]

\* settle_spin: the payout's bookkeeping, done only if total_payout > 0.
settle_spin_accounting(s, outcome) ==
    IF outcome.total_payout > 0
    THEN [s EXCEPT !.jackpots = outcome.jackpots,
                   !.total_payout = @ + outcome.total_payout,
                   !.total_pool = @ - outcome.total_payout]
    ELSE [s EXCEPT !.jackpots = outcome.jackpots]

\* clear_pending_spin that leaves has_pending_spin set.
clear_pending_spin_keeping_flag(ps) ==
    [ps EXCEPT !.pending_bet_amount = 0,
               !.randomness_account = DefaultPubkey]

\* clear_pending_spin that leaves the recorded randomness account.
clear_pending_spin_keeping_handle(ps) ==
    [ps EXCEPT !.has_pending_spin = FALSE,
               !.pending_bet_amount = 0]

\* settle_spin: "Clear pending spin".
clear_pending_spin(ps) ==
    [ps EXCEPT !.has_pending_spin = FALSE,
               !.pending_bet_amount = 0,
               !.randomness_account = DefaultPubkey]

\* settle_spin_validation without the comparison of the supplied randomness
\* account with the one recorded in player_state.
settle_spin_validation_without_key_match(p, ai) ==
    IF ~slots_state.initialized THEN "Uninitialized"
    ELSE IF slots_state.paused THEN "GamePaused"
    ELSE IF ~player_state[p].has_pending_spin THEN "NoPendingSpin"
    ELSE IF ~owned_by_switchboard(ai) THEN "RandomnessAccountMismatch"
    ELSE IF ~(player_state[p].pending_bet_amount > 0) THEN "InvalidBetAmount"
    ELSE IF ~value_resolved(ai) THEN "RandomnessNotResolved"
    ELSE "Ok"

\* settle_spin_validation without `require!(!slots_state.paused, ..)`.
settle_spin_validation_ignoring_pause(p, ai) ==
    IF ~slots_state.initialized THEN "Uninitialized"
    ELSE IF ~player_state[p].has_pending_spin THEN "NoPendingSpin"
    ELSE IF player_state[p].randomness_account # ai
         THEN "RandomnessAccountMismatch"
    ELSE IF ~owned_by_switchboard(ai) THEN "RandomnessAccountMismatch"
    ELSE IF ~(player_state[p].pending_bet_amount > 0) THEN "InvalidBetAmount"
    ELSE IF ~value_resolved(ai) THEN "RandomnessNotResolved"
    ELSE "Ok"

\* settle_spin: its require! checks up to the read of the revealed value, in
\* source order; the first that fails.
settle_spin_validation(p, ai) ==
    IF ~slots_state.initialized THEN "Uninitialized"
    ELSE IF slots_state.paused THEN "GamePaused"
    ELSE IF ~player_state[p].has_pending_spin THEN "NoPendingSpin"
    ELSE IF player_state[p].randomness_account # ai
         THEN "RandomnessAccountMismatch"
    ELSE IF ~owned_by_switchboard(ai) THEN "RandomnessAccountMismatch"
    ELSE IF ~(player_state[p].pending_bet_amount > 0) THEN "InvalidBetAmount"
    ELSE IF ~value_resolved(ai) THEN "RandomnessNotResolved"
    ELSE "Ok"

\* settle_spin: the require! checks that guard the payout transfer.
settle_spin_payout_check(outcome) ==
    IF outcome.zero_path \/ outcome.total_payout = 0 THEN "Ok"
    ELSE IF ~(lamports[Treasury] >= outcome.total_payout)
         THEN "InsufficientPool"
    ELSE IF ~(slots_state.total_pool >= outcome.total_payout)
         THEN "InsufficientPool"
    ELSE "Ok"

\* settle_spin: the outcome of the pending spin of p.
pending_outcome(p, ai) ==
    spin_outcome(slots_state, player_state[p].pending_bet_amount,
                 randomness[ai].value)

\* settle_spin: what the instruction returns.
settle_spin_error(p, ai) ==
    IF settle_spin_validation(p, ai) # "Ok" THEN settle_spin_validation(p, ai)
    ELSE settle_spin_payout_check(pending_outcome(p, ai))

\* pub fn settle_spin
SettleSpin(p, ai) ==
    /\ settle_spin_validation(p, ai) = "Ok"
    /\ \E outcome \in {pending_outcome(p, ai)} :
          /\ settle_spin_payout_check(outcome) = "Ok"
          /\ lamports' = transfer(lamports, Treasury, p, outcome.total_payout)
          /\ slots_state' =
               IF outcome.zero_path
               THEN zero_payout_stats(slots_state)
               ELSE update_rtp_stats(
                        settle_spin_accounting(slots_state, outcome))
          /\ player_state' =
               [player_state EXCEPT ![p] = clear_pending_spin(@)]
          /\ last' = [op |-> "settle_spin",
                      event |-> [user |-> p,
                         randomness_account |-> ai,
                         bet_amount |-> 0,
                         symbols |-> outcome.symbols,
                         base_payout |-> outcome.base_payout,
                         jackpot_payout |-> outcome.jackpot_payout,
                         total_payout |-> outcome.total_payout]]
          /\ net_flow' = net_flow - outcome.total_payout
    /\ UNCHANGED <<slot, randomness, deposited,
                   spin_requests, accepted_bets>>

\* add_to_pool: its require! checks in source order.
add_to_pool_error(user, amount) ==
    IF ~slots_state.initialized THEN "Uninitialized"
    ELSE IF ~(amount > 0) THEN "InvalidAmount"
    ELSE IF ~(lamports[user] >= amount) THEN "InsufficientFunds"
    ELSE "Ok"

\* pub fn add_to_pool
AddToPool(user, amount) ==
    /\ add_to_pool_error(user, amount) = "Ok"
    /\ lamports' = transfer(lamports, user, Treasury, amount)
    /\ slots_state' = [slots_state EXCEPT !.total_pool = @ + amount]
    /\ last' = Done("add_to_pool")
    /\ net_flow' = net_flow + amount
    /\ deposited' = deposited + amount
    /\ UNCHANGED <<player_state, slot, randomness, spin_requests,
                   accepted_bets>>

\* available_for_claim that does not hold back the jackpot amounts.
available_for_claim_ignoring_jackpots(s) ==
    saturating_sub(s.total_pool, s.min_pool_threshold)

\* claim_payout: what the authority may withdraw.
available_for_claim(s) ==
    LET jackpot_total == total_jackpot_amounts(s.jackpots)
        must_keep     == s.min_pool_threshold + jackpot_total
    IN saturating_sub(s.total_pool, must_keep)

\* claim_payout: its require! checks in source order.
claim_payout_error(signer, amount) ==
    IF ~slots_state.initialized THEN "Uninitialized"
    ELSE IF ~(amount > 0) THEN "InvalidAmount"
    ELSE IF signer # slots_state.authority THEN "Unauthorized"
    ELSE IF ~(amount <= available_for_claim(slots_state)) THEN "InsufficientPool"
    ELSE IF ~(lamports[Treasury] >= amount) THEN "InsufficientPool"
    ELSE "Ok"

\* pub fn claim_payout
ClaimPayout(signer, amount) ==
    /\ claim_payout_error(signer, amount) = "Ok"
    /\ slots_state' = [slots_state EXCEPT !.total_pool = @ - amount]
    /\ lamports' = transfer(lamports, Treasury, signer, amount)
    /\ last' = Done("claim_payout")
    /\ net_flow' = net_flow - amount
    /\ UNCHANGED <<player_state, slot, randomness, deposited,
                   spin_requests, accepted_bets>>

\* emergency_pause: its require! checks in source order.
emergency_pause_error(signer) ==
    IF ~slots_state.initialized THEN "Uninitialized"
    ELSE IF signer # slots_state.authority THEN "Unauthorized"
    ELSE "Ok"

\* pub fn emergency_pause
EmergencyPause(signer) ==
    /\ emergency_pause_error(signer) = "Ok"
    /\ slots_state' = [slots_state EXCEPT !.paused = ~@]
    /\ last' = Done("emergency_pause")
    /\ UNCHANGED <<player_state, lamports, slot, randomness, net_flow,
                   deposited, spin_requests, accepted_bets>>

\* ------------------------------------------------------------------------
\* Specification
\* ------------------------------------------------------------------------

Next ==
    \/ AdvanceSlot
    \/ \E h \in Handles : OracleCommit(h)
    \/ \E h \in Handles, v \in RandomValues : OracleReveal(h, v)
    \/ \E p \in Players, ra \in Handles, ai \in RandomnessAccounts,
          bet_amount \in BetAmounts : RequestSpin(p, ra, ai, bet_amount)
    \/ \E p \in Players, ai \in RandomnessAccounts : SettleSpin(p, ai)
    \/ \E user \in Signers, amount \in DepositAmounts : AddToPool(user, amount)
    \/ \E signer \in Signers, amount \in ClaimAmounts :
          ClaimPayout(signer, amount)
    \/ \E signer \in Signers : EmergencyPause(signer)

Spec == Init /\ [][Next]_vars

\* ------------------------------------------------------------------------
\* Warm start: the game after SettledBefore settled spins
\* ------------------------------------------------------------------------

\* The revealed bytes of the spins settled before the warm start (symbols
\* 2 9 9, and a jackpot draw that falls on the grand pool).
WarmValue == <<1, 0, 0, 0, 0, 0, 0, 0>>

\* SlotsState after one more spin of WarmBet, requested and then settled on
\* WarmValue.
after_settled_spin(s) ==
    LET requested == request_spin_accounting(s, WarmBet)
        outcome   == spin_outcome(requested, WarmBet, WarmValue)
    IN IF outcome.zero_path THEN zero_payout_stats(requested)
       ELSE update_rtp_stats(settle_spin_accounting(requested, outcome))

\* SlotsState after n more such spins, one after the other (the first half of
\* them, then the rest).
RECURSIVE after_settled_spins(_, _)
after_settled_spins(s, n) ==
    IF n = 0 THEN s
    ELSE IF n = 1 THEN after_settled_spin(s)
    ELSE CHOOSE r \in {after_settled_spins(t, n - n \div 2) :
                           t \in {after_settled_spins(s, n \div 2)}} : TRUE

\* The authority deposited AuthorityFunds, SettledBefore spins were settled,
\* and p1 (its wallet refilled to PlayerFunds meanwhile) has just requested
\* one more spin on h1, which the oracle committed in the current slot.
InitWarm ==
    \E warm \in {after_settled_spins(
                    [initialize(Authority) EXCEPT !.total_pool = AuthorityFunds],
                    SettledBefore)} :
       /\ slots_state = request_spin_accounting(warm, WarmBet)
       /\ player_state =
            [p \in Players |->
               IF p = "p1" THEN store_pending_spin(init_player(p), "h1", WarmBet)
               ELSE init_player(p)]
       /\ lamports = [a \in Signers \cup {Treasury} |->
                        IF a = Treasury
                        THEN TreasuryRent + warm.total_pool + WarmBet
                        ELSE IF a = Authority THEN 0
                        ELSE IF a = "p1" THEN PlayerFunds - WarmBet
                        ELSE PlayerFunds]
       /\ slot = FirstSlot
       /\ randomness =
            [h \in Handles |->
               IF h = "h1" THEN [FreshRandomness EXCEPT !.seed_slot = FirstSlot]
               ELSE FreshRandomness]
       /\ last = [op |-> "request_spin",
                  event |-> [NoEvent EXCEPT !.user = "p1",
                                            !.bet_amount = WarmBet,
                                            !.randomness_account = "h1"]]
       /\ net_flow = warm.total_pool + WarmBet
       /\ deposited = AuthorityFunds
       /\ spin_requests = SettledBefore + 1
       /\ accepted_bets = (SettledBefore + 1) * WarmBet

\* The instructions and environment steps enabled after the warm start (no
\* further request_spin and commit within the bounds, nothing left to deposit).
NextWarm ==
    \/ AdvanceSlot
    \/ \E h \in Handles, v \in RandomValues : OracleReveal(h, v)
    \/ \E p \in Players, ai \in RandomnessAccounts : SettleSpin(p, ai)
    \/ \E signer \in Signers, amount \in ClaimAmounts :
          ClaimPayout(signer, amount)
    \/ \E signer \in Signers : EmergencyPause(signer)

WarmSpec == InitWarm /\ [][NextWarm]_vars

\* ------------------------------------------------------------------------
\* Lamport-denominated start: amounts in lamports, one tiny bet pending
\* ------------------------------------------------------------------------

\* The authority deposited AuthorityFunds units, and p1 has just requested a
\* spin of a few lamports on h1, which the oracle committed in the current
\* slot.  All amounts of this specification are in lamports.
InitLamports ==
    \E bet_amount \in 1..MaxTinyBet :
       \E funded \in {[initialize_in(1, Authority) EXCEPT
                          !.total_pool = AuthorityFunds * LAMPORTS_PER_UNIT]} :
          /\ slots_state = request_spin_accounting(funded, bet_amount)
          /\ player_state =
               [p \in Players |->
                  IF p = "p1"
                  THEN store_pending_spin(init_player(p), "h1", bet_amount)
                  ELSE init_player(p)]
          /\ lamports = [a \in Signers \cup {Treasury} |->
                           IF a = Treasury
                           THEN TreasuryRent + funded.total_pool + bet_amount
                           ELSE IF a = Authority THEN 0
                           ELSE IF a = "p1" THEN PlayerFunds - bet_amount
                           ELSE PlayerFunds]
          /\ slot = FirstSlot
          /\ randomness =
               [h \in Handles |->
                  IF h = "h1"
                  THEN [FreshRandomness EXCEPT !.seed_slot = FirstSlot]
                  ELSE FreshRandomness]
          /\ last = [op |-> "request_spin",
                     event |-> [NoEvent EXCEPT !.user = "p1",
                                               !.bet_amount = bet_amount,
                                               !.randomness_account = "h1"]]
          /\ net_flow = funded.total_pool + bet_amount
          /\ deposited = funded.total_pool
          /\ spin_requests = 1
          /\ accepted_bets = bet_amount

\* Bets of further spins, in lamports: their jackpot contributions
\* (bet * 50 / 10000 and bet * 100 / 10000) leave a remainder.
LamportBets == {150, 250}

\* The reveal and the settlement of the pending spin, and further spins of a
\* few hundred lamports.
NextLamports ==
    \/ AdvanceSlot
    \/ \E h \in Handles, v \in RandomValues : OracleReveal(h, v)
    \/ \E p \in Players, ra \in Handles, ai \in RandomnessAccounts,
          bet_amount \in LamportBets : RequestSpin(p, ra, ai, bet_amount)
    \/ \E p \in Players, ai \in RandomnessAccounts : SettleSpin(p, ai)

LamportSpec == InitLamports /\ [][NextLamports]_vars

\* ------------------------------------------------------------------------
\* The symbol generator on its own: generate_weighted_symbol of a 64-bit word
\* ------------------------------------------------------------------------

\* The 64-bit words handed to generate_weighted_symbol: every low byte (so
\* every residue mod TOTAL_WEIGHT occurs) under a top byte of 0, 128 or 255.
LowBytes == 0..255

TopBytes == {0, 128, 255}

RandomWords == {<<low, 0, 0, 0, 0, 0, 0, top>> : low \in LowBytes, top \in TopBytes}

\* The accounts are as initialize and init_player leave them; `last` holds the
\* argument, and after the call the function's name and its result.
InitSymbols ==
    /\ slots_state = initialize(Authority)
    /\ player_state = [p \in Players |-> init_player(p)]
    /\ lamports = [a \in Signers \cup {Treasury} |->
                     IF a = Treasury THEN TreasuryRent
                     ELSE IF a = Authority THEN AuthorityFunds
                     ELSE PlayerFunds]
    /\ slot = FirstSlot
    /\ randomness = [h \in Handles |-> FreshRandomness]
    /\ \E random_u64 \in RandomWords :
          last = [op |-> "arguments", event |-> [random_u64 |-> random_u64]]
    /\ net_flow = 0
    /\ deposited = 0
    /\ spin_requests = 0
    /\ accepted_bets = 0

\* fn generate_weighted_symbol applied to the argument.
GenerateWeightedSymbol ==
    /\ last.op = "arguments"
    /\ last' = [op |-> "generate_weighted_symbol",
                event |-> [random_u64 |-> last.event.random_u64,
                           symbol |-> generate_weighted_symbol(
                                         last.event.random_u64)]]
    /\ UNCHANGED <<accounts, slot, randomness, net_flow, deposited,
                   spin_requests, accepted_bets>>

NextSymbols == GenerateWeightedSymbol

SymbolSpec == InitSymbols /\ [][NextSymbols]_vars

\* ------------------------------------------------------------------------
\* The payout calculator on its own: calculate_payout_3oak on 64-bit words
\* ------------------------------------------------------------------------

\* u64::MAX
U64Max == <<255, 255, 255, 255, 255, 255, 255, 255>>

\* The 64-bit word of a number below 2^31.
Word(n) ==
    <<n % 256, (n \div 256) % 256, (n \div 65536) % 256,
      (n \div 16777216) % 256, 0, 0, 0, 0>>

\* Column k (1..16) of the schoolbook product of two 8-byte words.
WideColumn(x, y, k) ==
    LET RECURSIVE col(_)
        col(i) == IF i > 8 \/ i > k THEN 0
                  ELSE (IF k + 1 - i <= 8 THEN x[i] * y[k + 1 - i] ELSE 0)
                       + col(i + 1)
    IN col(1)

\* The 16 bytes of the product of two 8-byte words.
RECURSIVE ProductBytes(_, _, _, _)
ProductBytes(x, y, k, carry) ==
    IF k > 16 THEN <<>>
    ELSE LET t == WideColumn(x, y, k) + carry
         IN <<t % 256>> \o ProductBytes(x, y, k + 1, t \div 256)

\* u64::saturating_mul: the product, or u64::MAX if it does not fit.
saturating_mul(x, y) ==
    LET product == ProductBytes(x, y, 1, 0)
    IN IF \E k \in 9..16 : product[k] # 0 THEN U64Max
       ELSE SubSeq(product, 1, 8)

\* calculate_payout_3oak_u64 that also pays when only the first two symbols
\* are equal.
calculate_payout_3oak_u64_pairs(symbols, bet_amount) ==
    IF \E i \in 1..3 : symbols[i] >= SYMBOL_COUNT THEN Word(0)
    ELSE IF symbols[1] = symbols[2]
         THEN saturating_mul(bet_amount, Word(SYMBOL_PAYOUTS_3OAK[symbols[1] + 1]))
         ELSE Word(0)

\* fn calculate_payout_3oak on a bet of the full width of a u64.
calculate_payout_3oak_u64(symbols, bet_amount) ==
    IF \E i \in 1..3 : symbols[i] >= SYMBOL_COUNT THEN Word(0)
    ELSE IF symbols[1] = symbols[2] /\ symbols[2] = symbols[3]
         THEN saturating_mul(bet_amount, Word(SYMBOL_PAYOUTS_3OAK[symbols[1] + 1]))
         ELSE Word(0)

\* The symbols handed to calculate_payout_3oak (a u8 each): the first and the
\* last of the table, one in between, and two that are outside the table.
SymbolInputs == {0, 1, 11, 12, 255}

\* The bets handed to it: 1, 100, the largest bet whose payout on symbol 0
\* fits in a u64 (33357584220089605 = (2^64 - 1) / 553), the next one, and
\* u64::MAX.
PayoutBets ==
    { Word(1), Word(100),
      <<5, 237, 0, 206, 139, 130, 118, 0>>,
      <<6, 237, 0, 206, 139, 130, 118, 0>>,
      U64Max }

\* The accounts are as initialize and init_player leave them; `last` holds the
\* arguments, and after the call the function's name and its result.
InitPayouts ==
    /\ slots_state = initialize(Authority)
    /\ player_state = [p \in Players |-> init_player(p)]
    /\ lamports = [a \in Signers \cup {Treasury} |->
                     IF a = Treasury THEN TreasuryRent
                     ELSE IF a = Authority THEN AuthorityFunds
                     ELSE PlayerFunds]
    /\ slot = FirstSlot
    /\ randomness = [h \in Handles |-> FreshRandomness]
    /\ \E s1 \in SymbolInputs, s2 \in SymbolInputs, s3 \in SymbolInputs,
          bet_amount \in PayoutBets :
          last = [op |-> "arguments",
                  event |-> [symbols |-> <<s1, s2, s3>>,
                             bet_amount |-> bet_amount]]
    /\ net_flow = 0
    /\ deposited = 0
    /\ spin_requests = 0
    /\ accepted_bets = 0

\* fn calculate_payout_3oak applied to the arguments.
CalculatePayout3oak ==
    /\ last.op = "arguments"
    /\ last' = [op |-> "calculate_payout_3oak",
                event |-> [symbols |-> last.event.symbols,
                           bet_amount |-> last.event.bet_amount,
                           payout |-> calculate_payout_3oak_u64(
                                         last.event.symbols,
                                         last.event.bet_amount)]]
    /\ UNCHANGED <<accounts, slot, randomness, net_flow, deposited,
                   spin_requests, accepted_bets>>

NextPayouts == CalculatePayout3oak

PayoutSpec == InitPayouts /\ [][NextPayouts]_vars

\* ------------------------------------------------------------------------
\* Properties
\* ------------------------------------------------------------------------

\* The player whose instruction succeeded last.
last_user == last.event.user

\* max(total_pool - min_pool_threshold, 0) capped by max_payout_per_spin.
payout_bound(s) ==
    Min(IF s.total_pool > s.min_pool_threshold
        THEN s.total_pool - s.min_pool_threshold ELSE 0,
        s.max_payout_per_spin)

\* C1: every successful settle_spin pays base_payout + jackpot_payout <=
\* min(max(total_pool - min_pool_threshold, 0), max_payout_per_spin) of the
\* state before it, with base_payout <= that bound and jackpot_payout <= the
\* bound minus base_payout; a settlement that starts with total_pool >=
\* min_pool_threshold leaves total_pool >= min_pool_threshold.
PayoutBound ==
    [][last'.op = "settle_spin" =>
         LET bound == payout_bound(slots_state)
             e     == last'.event
         IN /\ e.total_payout = e.base_payout + e.jackpot_payout
            /\ e.base_payout + e.jackpot_payout <= bound
            /\ e.base_payout <= bound
            /\ e.jackpot_payout <= bound - e.base_payout
            /\ slots_state'.total_pool = slots_state.total_pool - e.total_payout
            /\ slots_state.total_pool >= slots_state.min_pool_threshold
                 => slots_state'.total_pool >= slots_state.min_pool_threshold]_vars

\* A settlement whose payout was cut by the reserve: it paid something and
\* left total_pool exactly at min_pool_threshold.
PayoutBoundWitness ==
    /\ last.op = "settle_spin"
    /\ last.event.total_payout > 0
    /\ last.event.total_payout < slots_state.max_payout_per_spin
    /\ slots_state.total_pool = slots_state.min_pool_threshold

\* C2, as written: settle_spin for a player who is Idle returns NoPendingSpin.
IdleSettleReturnsNoPendingSpin ==
    \A p \in Players, ai \in RandomnessAccounts :
        ~player_state[p].has_pending_spin
            => settle_spin_error(p, ai) = "NoPendingSpin"

\* C2, amended: settle_spin for a player who is Idle is rejected, with
\* NoPendingSpin unless the game is paused (then with GamePaused); a
\* successful settle_spin finds its player Committed and leaves them Idle, and
\* only the player's own successful request_spin makes them Committed again:
\* between two successful settle_spin of a player lies a successful
\* request_spin of that player.
SettledAtMostOnce ==
    /\ [](\A p \in Players, ai \in RandomnessAccounts :
             ~player_state[p].has_pending_spin
                 => settle_spin_error(p, ai) =
                       IF slots_state.paused THEN "GamePaused"
                       ELSE "NoPendingSpin")
    /\ [][/\ last'.op = "settle_spin"
               => /\ player_state[last'.event.user].has_pending_spin
                  /\ ~player_state'[last'.event.user].has_pending_spin
          /\ \A p \in Players :
               (~player_state[p].has_pending_spin
                     /\ player_state'[p].has_pending_spin)
                  => last'.op = "request_spin" /\ last'.event.user = p]_vars

\* The player who has just settled tries to settle again and gets
\* NoPendingSpin.
SettledAtMostOnceWitness ==
    /\ last.op = "settle_spin"
    /\ settle_spin_error(last_user, last.event.randomness_account)
          = "NoPendingSpin"

\* C3, as written: request_spin by a player who is Committed returns
\* PendingSpinExists.
CommittedRequestReturnsPendingSpinExists ==
    \A p \in Committed, ai \in Handles, bet_amount \in BetAmounts :
        request_spin_error(p, ai, ai, bet_amount) = "PendingSpinExists"

\* C3, amended: request_spin by a player who is Committed is always rejected,
\* with PendingSpinExists when the game is not paused and 0 < bet_amount <=
\* max_payout_per_spin (the checks made before it); a successful request_spin
\* is by a player who was Idle, and the pending fields of a Committed player
\* change only in that player's own successful settle_spin.
PendingSpinNotOverwritten ==
    /\ [](\A p \in Committed, ra \in Handles, ai \in RandomnessAccounts,
             bet_amount \in BetAmounts :
             /\ request_spin_error(p, ra, ai, bet_amount) # "Ok"
             /\ (/\ ~slots_state.paused
                 /\ bet_amount > 0
                 /\ bet_amount <= slots_state.max_payout_per_spin)
                  => request_spin_error(p, ra, ai, bet_amount)
                        = "PendingSpinExists")
    /\ [][/\ last'.op = "request_spin"
               => ~player_state[last'.event.user].has_pending_spin
          /\ \A p \in Committed :
               player_state'[p] # player_state[p]
                  => last'.op = "settle_spin" /\ last'.event.user = p]_vars

\* A Committed player whose second request is refused with PendingSpinExists
\* although the pool, the funds and the handle would allow it.
PendingSpinNotOverwrittenWitness ==
    \E p \in Committed, ai \in Handles, bet_amount \in BetAmounts :
        /\ request_spin_error(p, ai, ai, bet_amount) = "PendingSpinExists"
        /\ lamports[p] >= bet_amount
        /\ slots_state.total_pool >= required_pool(slots_state)
        /\ seed_slot_fresh(randomness[ai].seed_slot, slot)

\* C4: in every reachable state and for every player, pending_bet_amount > 0
\* if and only if has_pending_spin.
PendingBetIffPendingSpin ==
    \A p \in Players :
        (player_state[p].pending_bet_amount > 0)
            <=> player_state[p].has_pending_spin

\* After a settlement, with another player still Committed.
PendingBetIffPendingSpinWitness ==
    /\ last.op = "settle_spin"
    /\ \E p \in Players : /\ player_state[p].has_pending_spin
                          /\ player_state[p].pending_bet_amount > 0

\* C5: at every settlement of an accepted spin, whatever other players and
\* the authority did since its request, total_pool - min_pool_threshold >=
\* max_payout_per_spin, and the base payout paid is
\* min(bet x multiplier, max_payout_per_spin).
ReserveCoversWorstCaseAtSettlement ==
    [][last'.op = "settle_spin" =>
         LET bet_amount == player_state[last'.event.user].pending_bet_amount
         IN /\ slots_state.total_pool - slots_state.min_pool_threshold
                  >= slots_state.max_payout_per_spin
            /\ last'.event.base_payout =
                  Min(calculate_payout_3oak(last'.event.symbols, bet_amount),
                      slots_state.max_payout_per_spin)]_vars

\* The three jackpot pools.
JackpotPools == {"mini", "major", "grand"}

\* C6: in every settlement the jackpot payout is 0 (and no pool changes) or
\* the full amount one pool held before the settlement; it is nonzero only
\* if that amount is <= max_total_affordable - base_payout; after an award
\* the awarded pool's amount is its seed and the other two pools are as before.
JackpotAllOrNothing ==
    [][last'.op = "settle_spin" =>
         LET e         == last'.event
             before    == slots_state.jackpots
             after     == slots_state'.jackpots
             remaining == payout_bound(slots_state) - e.base_payout
         IN \/ e.jackpot_payout = 0 /\ after = before
            \/ \E k \in JackpotPools :
                  /\ e.jackpot_payout > 0
                  /\ e.jackpot_payout = before[k].amount
                  /\ before[k].amount <= remaining
                  /\ after[k] = [before[k] EXCEPT !.amount = before[k].seed]
                  /\ \A o \in JackpotPools \ {k} : after[o] = before[o]]_vars

\* A settlement that paid a jackpot.
JackpotAllOrNothingWitness ==
    /\ last.op = "settle_spin"
    /\ last.event.jackpot_payout > 0
    /\ \E k \in JackpotPools :
          slots_state.jackpots[k].amount = slots_state.jackpots[k].seed

\* C7: when request_spin is accepted, the value of the randomness account it
\* names has not been revealed.
CommitPrecedesReveal ==
    last.op = "request_spin" => ~revealed(last.event.randomness_account)

\* C8, as written: request_spin returns InsufficientPool whenever total_pool <
\* min_pool_threshold + max_payout_per_spin.
LowPoolRequestReturnsInsufficientPool ==
    \A p \in Players, ai \in Handles, bet_amount \in BetAmounts :
        slots_state.total_pool
              < slots_state.min_pool_threshold + slots_state.max_payout_per_spin
           => request_spin_error(p, ai, ai, bet_amount) = "InsufficientPool"

\* The checks request_spin makes before it looks at the pool.
passes_earlier_checks(p, randomness_account, ai, bet_amount) ==
    /\ ~slots_state.paused
    /\ bet_amount > 0
    /\ bet_amount <= slots_state.max_payout_per_spin
    /\ ~player_state[p].has_pending_spin
    /\ randomness_account = ai
    /\ ai \in Handles
    /\ lamports[p] >= bet_amount

\* C8, amended: whenever total_pool < min_pool_threshold + max_payout_per_spin
\* request_spin is rejected, with InsufficientPool if the request passes the
\* checks made before the pool check (not paused, 0 < bet_amount <=
\* max_payout_per_spin, no pending spin, matching Switchboard-owned account,
\* enough funds) and with the error of the first of those that fails
\* otherwise; no request_spin succeeds from such a state.
LowPoolRequestRejected ==
    /\ [](\A p \in Players, ra \in Handles, ai \in RandomnessAccounts,
             bet_amount \in BetAmounts :
             slots_state.total_pool
                   < slots_state.min_pool_threshold
                        + slots_state.max_payout_per_spin
                => /\ request_spin_error(p, ra, ai, bet_amount) # "Ok"
                   /\ passes_earlier_checks(p, ra, ai, bet_amount)
                        => request_spin_error(p, ra, ai, bet_amount)
                              = "InsufficientPool")
    /\ [][last'.op = "request_spin"
             => slots_state.total_pool
                   >= slots_state.min_pool_threshold
                         + slots_state.max_payout_per_spin]_vars

\* After payouts drained the pool below the requirement, a well-formed
\* request on a fresh handle is refused with InsufficientPool.
LowPoolRequestRejectedWitness ==
    /\ slots_state.total_payout > 0
    /\ slots_state.total_pool
          < slots_state.min_pool_threshold + slots_state.max_payout_per_spin
    /\ \E p \in Players, ai \in Handles, bet_amount \in BetAmounts :
          /\ passes_earlier_checks(p, ai, ai, bet_amount)
          /\ seed_slot_fresh(randomness[ai].seed_slot, slot)
          /\ request_spin_error(p, ai, ai, bet_amount) = "InsufficientPool"

\* C9: total_pool is deposits + accepted bets - settlement payouts -
\* withdrawals, and never negative.
PoolAccounting ==
    /\ slots_state.total_pool = net_flow
    /\ slots_state.total_pool >= 0

\* All four kinds of movement have happened.
PoolAccountingWitness ==
    /\ slots_state.total_wagered > 0
    /\ slots_state.total_payout > 0
    /\ lamports[Authority] > 0
    /\ lamports[Authority] < AuthorityFunds

\* C10: a successful settle_spin leaves its player Idle: has_pending_spin
\* false, pending_bet_amount 0 and the recorded randomness account reset.
SettleLeavesIdle ==
    last.op = "settle_spin" =>
        /\ ~player_state[last_user].has_pending_spin
        /\ player_state[last_user].pending_bet_amount = 0
        /\ player_state[last_user].randomness_account = DefaultPubkey

\* A settlement on the zero-affordable path: nothing paid, the pool at (or
\* under) min_pool_threshold, although the symbols win.
SettleLeavesIdleWitness ==
    /\ last.op = "settle_spin"
    /\ last.event.total_payout = 0
    /\ max_total_affordable(slots_state) = 0
    /\ calculate_payout_3oak(last.event.symbols, 1) > 0
    /\ ~player_state[last_user].has_pending_spin

\* C11, as written: for a Committed player, settle_spin with an account other
\* than the recorded one returns RandomnessAccountMismatch, and settle_spin
\* with the recorded account whose value is not revealed returns
\* RandomnessNotResolved.
CommittedSettleReturnsNamedError ==
    \A p \in Committed, ai \in RandomnessAccounts :
        /\ ai # player_state[p].randomness_account
              => settle_spin_error(p, ai) = "RandomnessAccountMismatch"
        /\ (ai = player_state[p].randomness_account /\ ~revealed(ai))
              => settle_spin_error(p, ai) = "RandomnessNotResolved"

\* C11, amended: for a Committed player, settle_spin with an account other
\* than the recorded one, or with the recorded account whose value is not
\* revealed, is rejected: with GamePaused when the game is paused, otherwise
\* with RandomnessAccountMismatch resp. RandomnessNotResolved; a settle_spin
\* that succeeds names the recorded account and its value is revealed.
CommittedSettleRejected ==
    /\ [](\A p \in Committed, ai \in RandomnessAccounts :
             /\ ai # player_state[p].randomness_account
                   => settle_spin_error(p, ai) =
                         IF slots_state.paused THEN "GamePaused"
                         ELSE "RandomnessAccountMismatch"
             /\ (ai = player_state[p].randomness_account /\ ~revealed(ai))
                   => settle_spin_error(p, ai) =
                         IF slots_state.paused THEN "GamePaused"
                         ELSE "RandomnessNotResolved")
    /\ [][last'.op = "settle_spin"
             => /\ last'.event.randomness_account
                     = player_state[last'.event.user].randomness_account
                /\ revealed(last'.event.randomness_account)]_vars

\* A Committed player on a running game whose recorded account is committed
\* but not revealed: settling with it returns RandomnessNotResolved, settling
\* with the other Switchboard account returns RandomnessAccountMismatch.
CommittedSettleRejectedWitness ==
    \E p \in Committed, ai \in Handles :
        /\ ~slots_state.paused
        /\ ai # player_state[p].randomness_account
        /\ ~revealed(player_state[p].randomness_account)
        /\ settle_spin_error(p, ai) = "RandomnessAccountMismatch"
        /\ settle_spin_error(p, player_state[p].randomness_account)
              = "RandomnessNotResolved"

\* C12: every jackpot pool holds at least its seed.
JackpotAtLeastSeed ==
    \A k \in JackpotPools :
        slots_state.jackpots[k].amount >= slots_state.jackpots[k].seed

\* Bets have contributed to the pools and the mini pool, which every accepted
\* bet raises above its seed, is back at its seed: it was awarded and reset.
JackpotAtLeastSeedWitness ==
    /\ slots_state.total_wagered > 0
    /\ slots_state.jackpots.mini.amount = slots_state.jackpots.mini.seed
    /\ slots_state.jackpots.major.amount > slots_state.jackpots.major.seed

\* C13: when a Committed player's settle_spin reaches the payout computation
\* with total_pool <= min_pool_threshold (nothing affordable), it succeeds: it
\* reports the three symbols drawn from the revealed value, base, jackpot and
\* total payout are 0, the jackpot amounts, total_pool, total_payout and all
\* balances are unchanged, total_spins grows by one and the commitment is
\* cleared.
ZeroCapacitySettle ==
    /\ [](\A p \in Committed, ai \in RandomnessAccounts :
             (/\ slots_state.total_pool <= slots_state.min_pool_threshold
              /\ settle_spin_validation(p, ai) = "Ok")
                => settle_spin_error(p, ai) = "Ok")
    /\ [][(/\ last'.op = "settle_spin"
            /\ slots_state.total_pool <= slots_state.min_pool_threshold)
             => /\ last'.event.symbols =
                     draw_symbols(
                        randomness[last'.event.randomness_account].value).symbols
                /\ last'.event.base_payout = 0
                /\ last'.event.jackpot_payout = 0
                /\ last'.event.total_payout = 0
                /\ slots_state'.jackpots = slots_state.jackpots
                /\ slots_state'.total_pool = slots_state.total_pool
                /\ slots_state'.total_payout = slots_state.total_payout
                /\ slots_state'.total_spins = slots_state.total_spins + 1
                /\ lamports' = lamports
                /\ player_state'[last'.event.user] =
                     clear_pending_spin(player_state[last'.event.user])
                /\ ~player_state'[last'.event.user].has_pending_spin]_vars

\* A spin settled with nothing affordable, after earlier settlements drained
\* the pool to min_pool_threshold: three symbols reported, nothing paid, and
\* the mini pool still holds the contributions made to it.
ZeroCapacitySettleWitness ==
    /\ last.op = "settle_spin"
    /\ slots_state.total_pool <= slots_state.min_pool_threshold
    /\ Len(last.event.symbols) = 3
    /\ last.event.total_payout = 0
    /\ slots_state.total_spins > 1
    /\ slots_state.jackpots.mini.amount > slots_state.jackpots.mini.seed

\* total_pool - min_pool_threshold - (mini + major + grand), floored at zero.
withdrawable ==
    LET reserve == slots_state.min_pool_threshold
                     + slots_state.jackpots.mini.amount
                     + slots_state.jackpots.major.amount
                     + slots_state.jackpots.grand.amount
    IN IF slots_state.total_pool > reserve
       THEN slots_state.total_pool - reserve ELSE 0

\* C14, as written: after a successful claim_payout total_pool is at least
\* min_pool_threshold plus the three jackpot amounts, and claim_payout of more
\* than the withdrawable amount returns InsufficientPool.
ClaimBoundedOrInsufficientPool ==
    /\ last.op = "claim_payout"
          => slots_state.total_pool
                >= slots_state.min_pool_threshold
                     + total_jackpot_amounts(slots_state.jackpots)
    /\ \A signer \in Signers, amount \in ClaimAmounts \cup {withdrawable + 1} :
          amount > withdrawable
             => claim_payout_error(signer, amount) = "InsufficientPool"

\* C14, amended: after a successful claim_payout total_pool is at least
\* min_pool_threshold plus the three jackpot amounts; claim_payout of more than
\* the withdrawable amount is rejected, with InsufficientPool when the signer
\* is the authority and with Unauthorized when it is anyone else.
ClaimBounded ==
    /\ last.op = "claim_payout"
          => slots_state.total_pool
                >= slots_state.min_pool_threshold
                     + total_jackpot_amounts(slots_state.jackpots)
    /\ \A signer \in Signers, amount \in ClaimAmounts \cup {withdrawable + 1} :
          amount > withdrawable
             => claim_payout_error(signer, amount) =
                   IF signer = slots_state.authority
                   THEN "InsufficientPool" ELSE "Unauthorized"

\* The authority has just withdrawn, and what is left above the reserve is
\* positive but less than the next withdrawal it asks for, which is refused.
ClaimBoundedWitness ==
    /\ last.op = "claim_payout"
    /\ withdrawable > 0
    /\ \E amount \in ClaimAmounts :
          /\ amount > withdrawable
          /\ claim_payout_error(Authority, amount) = "InsufficientPool"

\* C15: in every settle_spin with total_spins >= 100 and the actual RTP more
\* than 50 basis points away from the target (10000 - house_edge_bps), the
\* payout of the spin is at most twice the theoretical (3-of-a-kind) payout,
\* at most twice the bet and at most ten times the bet.
RtpCapsAfterWarmUp ==
    [][(/\ last'.op = "settle_spin"
        /\ slots_state.total_spins >= 100
        /\ slots_state.total_wagered > 0
        /\ LET actual == rtp_quotient(slots_state.total_payout,
                                      slots_state.total_wagered)
               target == 10000 - slots_state.house_edge_bps
           IN \/ actual.hi > 0
              \/ actual.lo < target - 50
              \/ actual.lo > target + 50)
         => LET bet == player_state[last'.event.user].pending_bet_amount
                theoretical == calculate_payout_3oak(last'.event.symbols, bet)
            IN /\ last'.event.total_payout <= 2 * theoretical
               /\ last'.event.total_payout <= 2 * bet
               /\ last'.event.total_payout <= 10 * bet]_vars

\* C16, as written: total_payout never exceeds total_wagered plus the three
\* jackpot seeds.
PayoutWithinWagersAndSeeds ==
    slots_state.total_payout
       <= slots_state.total_wagered
            + slots_state.jackpots.mini.seed
            + slots_state.jackpots.major.seed
            + slots_state.jackpots.grand.seed

\* C16, amended: total_payout never exceeds total_wagered plus the sum of the
\* add_to_pool deposits.
PayoutWithinWagersAndDeposits ==
    slots_state.total_payout <= slots_state.total_wagered + deposited

\* Payouts above the wagers and the jackpot seeds together, paid out of the
\* deposit.
PayoutWithinWagersAndDepositsWitness ==
    /\ deposited > 0
    /\ slots_state.total_payout
          > slots_state.total_wagered
              + slots_state.jackpots.mini.seed
              + slots_state.jackpots.major.seed
              + slots_state.jackpots.grand.seed

\* C17: house_profit is total_wagered - total_payout, saturating at zero, in
\* every reachable state (also between a request_spin and the next
\* settle_spin).
HouseProfitTracksCounters ==
    slots_state.house_profit =
        IF slots_state.total_wagered >= slots_state.total_payout
        THEN slots_state.total_wagered - slots_state.total_payout
        ELSE 0

\* C18: right after a successful settle_spin (either path), the stored
\* current_rtp_bps is floor(total_payout * 10000 / total_wagered) exactly.
RtpStoredExactly ==
    (last.op = "settle_spin" /\ slots_state.total_wagered > 0)
       => slots_state.current_rtp_bps =
             rtp_quotient(slots_state.total_payout, slots_state.total_wagered)

\* The seed slot of a randomness account is neither the current slot nor the
\* one before it.
seed_slot_stale(ai) ==
    /\ randomness[ai].seed_slot # slot
    /\ randomness[ai].seed_slot # slot - 1

\* C19, as written: request_spin succeeds only on an account whose seed slot
\* is the current or the preceding slot, and on any other seed slot it
\* returns RandomnessNotResolved.
StaleRequestReturnsNotResolved ==
    \A p \in Players, ai \in Handles, bet_amount \in BetAmounts :
        /\ request_spin_error(p, ai, ai, bet_amount) = "Ok"
              => ~seed_slot_stale(ai)
        /\ seed_slot_stale(ai)
              => request_spin_error(p, ai, ai, bet_amount)
                    = "RandomnessNotResolved"

\* C19, amended: request_spin succeeds only on an account whose seed slot is
\* the current or the preceding slot; on any other seed slot it is rejected,
\* with RandomnessNotResolved if the request passes all the checks made before
\* the freshness check (not paused, 0 < bet_amount <= max_payout_per_spin, no
\* pending spin, matching Switchboard-owned account, enough funds, pool and
\* treasury at least min_pool_threshold + max_payout_per_spin) and with the
\* error of the first of those that fails otherwise.
StaleRequestRejected ==
    /\ [](\A p \in Players, ra \in Handles, ai \in Handles,
             bet_amount \in BetAmounts :
             seed_slot_stale(ai)
                => /\ request_spin_error(p, ra, ai, bet_amount) # "Ok"
                   /\ (/\ passes_earlier_checks(p, ra, ai, bet_amount)
                       /\ slots_state.total_pool
                             >= slots_state.min_pool_threshold
                                  + slots_state.max_payout_per_spin
                       /\ lamports[Treasury]
                             >= slots_state.min_pool_threshold
                                  + slots_state.max_payout_per_spin)
                        => request_spin_error(p, ra, ai, bet_amount)
                              = "RandomnessNotResolved")
    /\ [][last'.op = "request_spin"
             => ~seed_slot_stale(last'.event.randomness_account)]_vars

\* A well-formed request on a funded game names an account the oracle
\* committed two or more slots ago and is refused with RandomnessNotResolved.
StaleRequestRejectedWitness ==
    \E p \in Players, ai \in Handles, bet_amount \in BetAmounts :
        /\ randomness[ai].seed_slot # 0
        /\ randomness[ai].seed_slot < slot - 1
        /\ request_spin_error(p, ai, ai, bet_amount) = "RandomnessNotResolved"

\* Players without a pending spin.
Idle == Players \ Committed

\* C20, as written: an Idle player's request_spin that fails one of the four
\* validations returns the error named for a validation it fails: GamePaused
\* (game paused), InvalidBetAmount (bet of 0), BetTooHigh (bet above
\* max_payout_per_spin) or InsufficientFunds (balance below the bet).
InvalidRequestReturnsNamedError ==
    \A p \in Idle, ra \in Handles, ai \in RandomnessAccounts,
       bet_amount \in BetAmounts :
        (\/ slots_state.paused
         \/ bet_amount = 0
         \/ bet_amount > slots_state.max_payout_per_spin
         \/ lamports[p] < bet_amount)
           => \/ /\ slots_state.paused
                 /\ request_spin_error(p, ra, ai, bet_amount) = "GamePaused"
              \/ /\ bet_amount = 0
                 /\ request_spin_error(p, ra, ai, bet_amount)
                       = "InvalidBetAmount"
              \/ /\ bet_amount > slots_state.max_payout_per_spin
                 /\ request_spin_error(p, ra, ai, bet_amount) = "BetTooHigh"
              \/ /\ lamports[p] < bet_amount
                 /\ request_spin_error(p, ra, ai, bet_amount)
                       = "InsufficientFunds"

\* C20, amended: an Idle player's request_spin on a paused game, with a bet of
\* 0, with a bet above max_payout_per_spin or with a balance below the bet is
\* rejected with the error of the first check that fails, in this order:
\* GamePaused, InvalidBetAmount, BetTooHigh, then RandomnessAccountMismatch if
\* the named account is not the supplied Switchboard-owned account, then
\* InsufficientFunds; every request_spin that succeeds is made on a running
\* game with 0 < bet_amount <= max_payout_per_spin and a balance of at least
\* the bet.
InvalidRequestRejected ==
    /\ [](\A p \in Idle, ra \in Handles, ai \in RandomnessAccounts,
             bet_amount \in BetAmounts :
             (\/ slots_state.paused
              \/ bet_amount = 0
              \/ bet_amount > slots_state.max_payout_per_spin
              \/ lamports[p] < bet_amount)
                => request_spin_error(p, ra, ai, bet_amount) =
                      IF slots_state.paused THEN "GamePaused"
                      ELSE IF bet_amount = 0 THEN "InvalidBetAmount"
                      ELSE IF bet_amount > slots_state.max_payout_per_spin
                           THEN "BetTooHigh"
                      ELSE IF ra # ai \/ ai \notin Handles
                           THEN "RandomnessAccountMismatch"
                      ELSE "InsufficientFunds")
    /\ [][last'.op = "request_spin"
             => /\ ~slots_state.paused
                /\ last'.event.bet_amount > 0
                /\ last'.event.bet_amount <= slots_state.max_payout_per_spin
                /\ lamports[last'.event.user] >= last'.event.bet_amount]_vars

\* An Idle player on a running game who has lost the wallet's funds asks for a
\* spin with an admissible bet and is refused with InsufficientFunds.
InvalidRequestRejectedWitness ==
    \E p \in Idle, ai \in Handles, bet_amount \in BetAmounts :
        /\ ~slots_state.paused
        /\ bet_amount > 0
        /\ bet_amount <= slots_state.max_payout_per_spin
        /\ lamports[p] < bet_amount
        /\ request_spin_error(p, ai, ai, bet_amount) = "InsufficientFunds"

\* C21: every successful request_spin with bet b raises each jackpot pool's
\* amount by exactly floor(b * contrib_bps / 10000) of that pool and raises
\* total_wagered and total_pool by exactly b; the contribution is made at
\* request time, whatever the outcome: a settle_spin leaves each pool's amount
\* as it was or resets it to its seed.
ContributionAtRequest ==
    [][/\ last'.op = "request_spin"
          => LET b == last'.event.bet_amount
             IN /\ \A k \in JackpotPools :
                      slots_state'.jackpots[k].amount
                         = slots_state.jackpots[k].amount
                           + (b * slots_state.jackpots[k].contrib_bps) \div 10000
                /\ slots_state'.total_wagered = slots_state.total_wagered + b
                /\ slots_state'.total_pool = slots_state.total_pool + b
       /\ last'.op = "settle_spin"
          => \A k \in JackpotPools :
                \/ slots_state'.jackpots[k].amount
                      = slots_state.jackpots[k].amount
                \/ slots_state'.jackpots[k].amount
                      = slots_state.jackpots[k].seed]_vars

\* A request_spin has just succeeded whose contributions were rounded down
\* (250 lamports: 1 to the mini and grand pools for 1.25, 2 to the major pool
\* for 2.5), after an earlier spin was settled.
ContributionAtRequestWitness ==
    /\ last.op = "request_spin"
    /\ (last.event.bet_amount * slots_state.jackpots.mini.contrib_bps) % 10000 # 0
    /\ (last.event.bet_amount * slots_state.jackpots.major.contrib_bps) % 10000 # 0
    /\ slots_state.jackpots.mini.amount > slots_state.jackpots.mini.seed
    /\ slots_state.jackpots.major.amount > slots_state.jackpots.major.seed
    /\ slots_state.total_spins > 0

\* The first tier, walking mini, major, grand, whose cumulative hit_weight
\* exceeds r ("none" if there is no such tier).
jackpot_candidate(jackpots, r) ==
    IF r < jackpots.mini.hit_weight THEN "mini"
    ELSE IF r < jackpots.mini.hit_weight + jackpots.major.hit_weight
         THEN "major"
    ELSE IF r < jackpots.mini.hit_weight + jackpots.major.hit_weight
                + jackpots.grand.hit_weight
         THEN "grand"
    ELSE "none"

\* The random value jackpot resolution draws from each revealed value: the
\* fourth value drawn from it, after the three that give the symbols.
JackpotDraws ==
    [v \in RandomValues |-> next_random_u64(draw_symbols(v).seed)]

\* The random value jackpot resolution draws when the spin is settled on the
\* revealed value of ai.
jackpot_draw(ai) == JackpotDraws[randomness[ai].value]

\* A settle_spin step on which jackpot resolution runs with candidate c: the
\* jackpot payout is the candidate's whole amount, and the candidate is reset
\* to its seed, or the payout is 0 and the candidate's amount exceeds the
\* ceiling (what is affordable after the base payout) or is 0; the other pools
\* are left alone.
resolved_on(c) ==
    LET e       == last'.event
        ceiling == max_total_affordable(slots_state) - e.base_payout
        before  == slots_state.jackpots
        after   == slots_state'.jackpots
    IN /\ c \in JackpotPools
       /\ \A o \in JackpotPools \ {c} : after[o] = before[o]
       /\ \/ /\ e.jackpot_payout = before[c].amount
             /\ e.jackpot_payout # 0
             /\ before[c].amount <= ceiling
             /\ after[c] = [before[c] EXCEPT !.amount = before[c].seed]
          \/ /\ e.jackpot_payout = 0
             /\ before[c].amount > ceiling \/ before[c].amount = 0
             /\ after[c] = before[c]

\* A settle_spin step on which jackpot resolution runs: the base payout leaves
\* spare affordable capacity.
resolution_runs ==
    /\ last'.op = "settle_spin"
    /\ last'.event.base_payout < max_total_affordable(slots_state)

\* C22: jackpot resolution picks its candidate by r = (next random value) mod
\* hit_weight_total, walking mini, major, grand: the candidate is the first
\* tier whose cumulative hit_weight exceeds r; a candidate exists for every r,
\* and whenever resolution runs the jackpot payout is 0 only if the
\* candidate's amount exceeds the ceiling (or is 0).
JackpotCandidateByRandomValue ==
    [][resolution_runs
         => \E c \in {jackpot_candidate(slots_state.jackpots,
                       BytesMod(jackpot_draw(last'.event.randomness_account),
                                1, 8, slots_state.jackpots.hit_weight_total))} :
               resolved_on(c)]_vars

\* C22, amended: r is the low 32 bits of the next random value (its cast
\* `as u32`) mod hit_weight_total; the rest as stated.  hit_weight_total is
\* the sum of the three hit weights in every reachable state.
JackpotCandidateByLowWord ==
    /\ [](slots_state.jackpots.hit_weight_total
             = slots_state.jackpots.mini.hit_weight
               + slots_state.jackpots.major.hit_weight
               + slots_state.jackpots.grand.hit_weight)
    /\ [][resolution_runs
            => \E c \in {jackpot_candidate(slots_state.jackpots,
                          BytesMod(jackpot_draw(last'.event.randomness_account),
                                   1, 4, slots_state.jackpots.hit_weight_total))} :
                  resolved_on(c)]_vars

\* A settlement whose jackpot resolution paid the major pool (the low 32 bits
\* of the draw give r = 516, the whole draw gives 876, which is the grand
\* pool's): the major pool is back at its seed, the grand pool is not.
JackpotCandidateByLowWordWitness ==
    /\ last.op = "settle_spin"
    /\ last.event.base_payout = 0
    /\ last.event.jackpot_payout > slots_state.jackpots.major.seed
    /\ slots_state.jackpots.major.amount = slots_state.jackpots.major.seed
    /\ slots_state.jackpots.grand.amount > slots_state.jackpots.grand.seed
    /\ BytesMod(jackpot_draw(last.event.randomness_account), 1, 4,
                slots_state.jackpots.hit_weight_total) = 516
    /\ BytesMod(jackpot_draw(last.event.randomness_account), 1, 8,
                slots_state.jackpots.hit_weight_total) = 876

\* The sum of the weights of the symbols below index i.
RECURSIVE weight_below(_)
weight_below(i) == IF i = 0 THEN 0 ELSE weight_below(i - 1) + SYMBOL_WEIGHTS[i]

\* C23: for every random input, generate_weighted_symbol returns the unique
\* index i in 0..11 with (sum of the weights below i) <= r < (sum of the
\* weights up to and including i), where r = input mod 78; exactly w_i of the
\* 78 residues map to symbol i, and the result is never outside the table.
SymbolByCumulativeWeight ==
    /\ weight_below(SYMBOL_COUNT) = TOTAL_WEIGHT
    /\ \A i \in 0..(SYMBOL_COUNT - 1) :
          Cardinality({r \in 0..(TOTAL_WEIGHT - 1) : weighted_scan(r, 0) = i})
             = SYMBOL_WEIGHTS[i + 1]
    /\ last.op = "generate_weighted_symbol"
          => LET r == BytesMod(last.event.random_u64, 1, 8, TOTAL_WEIGHT)
                 i == last.event.symbol
             IN /\ i \in 0..(SYMBOL_COUNT - 1)
                /\ weight_below(i) <= r
                /\ r < weight_below(i + 1)
                /\ \A j \in 0..(SYMBOL_COUNT - 1) :
                      (weight_below(j) <= r /\ r < weight_below(j + 1)) => j = i

\* The generator was applied to a word with all of its top byte set whose
\* residue is 77, the last one: it returned the last symbol of the table.
SymbolByCumulativeWeightWitness ==
    /\ last.op = "generate_weighted_symbol"
    /\ last.event.random_u64[8] = 255
    /\ BytesMod(last.event.random_u64, 1, 8, TOTAL_WEIGHT) = TOTAL_WEIGHT - 1
    /\ last.event.symbol = SYMBOL_COUNT - 1

\* The exact product of the bet and the multiplier of symbol s, as 16 bytes.
exact_payout(bet_amount, s) ==
    ProductBytes(bet_amount, Word(SYMBOL_PAYOUTS_3OAK[s + 1]), 1, 0)

\* A 64-bit word widened to 16 bytes.
Widened(x) == x \o <<0, 0, 0, 0, 0, 0, 0, 0>>

\* The value of a word that is below 2^23.
SmallValue(x) == BytesMod(x, 1, 8, 8388608)

RequestsAndWagersCounted ==
    /\ spin_requests = slots_state.total_spins + Cardinality(Committed)
    /\ accepted_bets = slots_state.total_wagered

\* Three spins were requested: two were settled, with a payout, and the
\* third is still pending.
RequestsAndWagersCountedWitness ==
    /\ spin_requests = 3
    /\ slots_state.total_spins = 2
    /\ Cardinality(Committed) = 1
    /\ slots_state.total_payout > 0
    /\ accepted_bets > slots_state.total_payout
    /\ \E p \in Committed :
          accepted_bets > player_state[p].pending_bet_amount

\* C26: while the game is paused, settle_spin by a Committed player is
\* rejected with GamePaused and changes nothing; emergency_pause never clears
\* or refunds a commitment; the player stays Committed with the same handle
\* and escrowed bet for as long as the pause lasts; and a commitment is
\* settled only when the game is not paused, which after a pause takes an
\* emergency_pause of the authority.
PausedCommitmentKept ==
    /\ [](/\ slots_state.paused
             => \A p \in Committed, ai \in RandomnessAccounts :
                   settle_spin_error(p, ai) = "GamePaused"
          /\ \A signer \in Signers :
                emergency_pause_error(signer) = "Ok"
                   => signer = slots_state.authority)
    /\ [][/\ last'.op = "emergency_pause"
             => /\ player_state' = player_state
                /\ lamports' = lamports
                /\ slots_state' = [slots_state EXCEPT !.paused = ~@]
          /\ slots_state.paused
             => /\ \A p \in Committed : player_state'[p] = player_state[p]
                /\ last'.op # "settle_spin"
                /\ ~slots_state'.paused => last'.op = "emergency_pause"
          /\ last'.op = "settle_spin" => ~slots_state.paused]_vars

\* The authority has just paused the game while a player is Committed to a
\* handle whose value is revealed in the current slot: the settlement that
\* would otherwise go through is rejected with GamePaused.
PausedCommitmentKeptWitness ==
    /\ last.op = "emergency_pause"
    /\ slots_state.paused
    /\ \E p \in Committed :
          /\ value_resolved(player_state[p].randomness_account)
          /\ player_state[p].pending_bet_amount > 0
          /\ settle_spin_error(p, player_state[p].randomness_account)
                = "GamePaused"

\* C27: in every reachable state in which the game is not paused, a Committed
\* player who supplies the recorded handle, with its revealed value at hand
\* for the current slot, can settle: settle_spin never fails with
\* InsufficientPool, because the computed total payout is at most total_pool
\* and, the treasury balance being total_pool plus a constant (its rent), at
\* most the treasury balance, whatever other players' spins, deposits and
\* withdrawals came before.
SettleNeverInsufficientPool ==
    /\ lamports[Treasury] = slots_state.total_pool + TreasuryRent
    /\ \A p \in Players, ai \in RandomnessAccounts :
          settle_spin_validation(p, ai) # "InsufficientPool"
    /\ \A p \in Committed :
          value_resolved(player_state[p].randomness_account)
             => \E ai \in {player_state[p].randomness_account} :
                   /\ ~slots_state.paused => settle_spin_validation(p, ai) = "Ok"
                   /\ \E outcome \in {pending_outcome(p, ai)} :
                         /\ settle_spin_payout_check(outcome) = "Ok"
                         /\ outcome.total_payout <= slots_state.total_pool
                         /\ outcome.total_payout <= lamports[Treasury]

\* The authority has just withdrawn from the pool, an earlier spin was paid
\* out, and two players are Committed to a handle whose value is revealed in
\* the current slot: each of them can settle, and for one of them the
\* settlement pays.
SettleNeverInsufficientPoolWitness ==
    /\ last.op = "claim_payout"
    /\ ~slots_state.paused
    /\ slots_state.total_payout > 0
    /\ Cardinality(Committed) = 2
    /\ \A p \in Committed :
          /\ value_resolved(player_state[p].randomness_account)
          /\ settle_spin_error(p, player_state[p].randomness_account) = "Ok"
    /\ \E p \in Committed :
          pending_outcome(p, player_state[p].randomness_account).total_payout > 0

====
